---- MODULE Spec2Model ----
(***************************************************************************)
(* Human-in-the-loop flight search on a checkpointed graph workflow.       *)
(*                                                                         *)
(* Two programs are modelled:                                              *)
(*   - the circular workflow of src/main.ts (initialize, showFlights,      *)
(*     requestChoice, disambiguateSelection, showFinalFlight), suffix C;   *)
(*   - the single-pass workflow of src/unnamed/part_000 and src/main.js    *)
(*     (retrieveFlights, evaluateResults, showResults, requestUserChoice,  *)
(*     disambiguateAndAnswer), suffix S.                                   *)
(*                                                                         *)
(* Strings are sequences of one-character strings, so that trimming,       *)
(* splitting and integer parsing are computed as the code computes them.   *)
(* A channel of the workflow state is <<>> while undefined and <<v>> once  *)
(* it holds v.                                                             *)
(***************************************************************************)
EXTENDS Integers, Sequences, FiniteSets, TLC

VARIABLES
    store,      \* checkpointer contents: thread_id -> checkpoint
    drvC,       \* circular driver (main): position in main()
    curC,       \* circular driver: currentState, the last value app.invoke returned
    runC,       \* circular engine: the run in flight (values, cursor, resume value)
    ansC,       \* circular driver: userChoice, the trimmed line read from the terminal
    nSentC,     \* history: number of Command({resume}) calls issued
    nSeenC,     \* history: number of executions of disambiguateSelection
    seenC,      \* history: userChoice channel read by the last disambiguateSelection
    showRunsC,  \* history: number of executions of showFlights
    visitsC,    \* history: number of times the cursor was moved onto showFlights
    routerLogC, \* history: one entry (size, label) per evaluation of the router
    refC,       \* reference run: the same nodes applied with no pause and no store
    drvS,       \* single-pass driver (main): position in main()
    curS,       \* single-pass driver: currentState
    runS,       \* single-pass engine: the run in flight
    ansS,       \* single-pass driver: userChoice, the trimmed line read
    hitsS,      \* history: what similaritySearch returned to retrieveFlights
    nSentS,     \* history: number of Command({resume}) calls issued
    interruptsS,\* history: number of interrupts raised
    showRunsS,  \* history: number of executions of showResults
    askedS,     \* history: answer of the language model used by disambiguateAndAnswer
    printedS,   \* what main() printed as the final result
    refS,       \* reference run of the single-pass workflow
    esIndex,    \* the Elasticsearch index VECTOR_INDEX: whether it exists, its documents
    ingPc,      \* ingestData: position in the call in progress
    ingCalls,   \* history: number of ingestData calls that have returned
    afterFirst, \* history: the documents of the index when the first call returned
    addedFirst  \* history: number of documents the first call added

varsC == <<drvC, curC, runC, ansC, nSentC, nSeenC, seenC, showRunsC, visitsC,
           routerLogC, refC>>

varsS == <<drvS, curS, runS, ansS, hitsS, nSentS, interruptsS, showRunsS, askedS,
           printedS, refS>>

varsI == <<esIndex, ingPc, ingCalls, afterFirst, addedFirst>>

vars == <<store, varsC, varsS, varsI>>

----------------------------------------------------------------------------
(* Bounds of the model *)

\* The driver's while loop is unbounded; the model stops prompting after
\* MaxResumes resume calls.
MaxResumes == 3

\* The program may be started any number of times; the model stops after
\* MaxCalls calls of ingestData.
MaxCalls == 4

\* dataset.json holds at most MaxDataset documents.
MaxDataset == 2

----------------------------------------------------------------------------
(* Strings *)

IsDigit(c) == c \in {"0", "1", "2", "3", "4", "5", "6", "7", "8", "9"}

DigitVal(c) ==
    CASE c = "0" -> 0 [] c = "1" -> 1 [] c = "2" -> 2 [] c = "3" -> 3
      [] c = "4" -> 4 [] c = "5" -> 5 [] c = "6" -> 6 [] c = "7" -> 7
      [] c = "8" -> 8 [] c = "9" -> 9

IsSpace(c) == c \in {" ", "\t", "\n"}

RECURSIVE TrimStart(_)
TrimStart(s) ==
    IF s # <<>> /\ IsSpace(Head(s)) THEN TrimStart(Tail(s)) ELSE s

RECURSIVE TrimEnd(_)
TrimEnd(s) ==
    IF s # <<>> /\ IsSpace(s[Len(s)]) THEN TrimEnd(SubSeq(s, 1, Len(s) - 1)) ELSE s

\* String.prototype.trim
Trim(s) == TrimEnd(TrimStart(s))

RECURSIVE SplitAcc(_, _, _)
SplitAcc(s, cur, acc) ==
    IF s = <<>> THEN Append(acc, cur)
    ELSE IF Head(s) = "," THEN SplitAcc(Tail(s), <<>>, Append(acc, cur))
    ELSE SplitAcc(Tail(s), Append(cur, Head(s)), acc)

\* String.prototype.split(","): "" splits into one empty piece
Split(s) == SplitAcc(s, <<>>, <<>>)

\* A JavaScript number that may be NaN
NaN == [nan |-> TRUE, n |-> 0]
Num(k) == [nan |-> FALSE, n |-> k]

RECURSIVE DigitsValue(_, _)
DigitsValue(s, acc) ==
    IF s # <<>> /\ IsDigit(Head(s)) THEN DigitsValue(Tail(s), 10 * acc + DigitVal(Head(s)))
    ELSE acc

\* Number.parseInt(s, 10): leading white space is skipped, an optional sign
\* is read, then the longest run of digits; no digit at all gives NaN and
\* whatever follows the digits is ignored.
ParseInt(s) ==
    LET t == TrimStart(s)
        signed == t # <<>> /\ Head(t) \in {"+", "-"}
        body == IF signed THEN Tail(t) ELSE t
    IN  IF body = <<>> \/ ~IsDigit(Head(body)) THEN NaN
        ELSE IF signed /\ Head(t) = "-" THEN Num(0 - DigitsValue(body, 0))
        ELSE Num(DigitsValue(body, 0))

\* x - 1 on a JavaScript number
MinusOne(x) == IF x.nan THEN NaN ELSE Num(x.n - 1)

\* i >= 0 && i < len (false for NaN)
InRange(x, len) == ~x.nan /\ x.n >= 0 /\ x.n < len

\* /^\d+$/.exec(s) succeeds
numberRegex(s) == s # <<>> /\ \A i \in 1..Len(s) : IsDigit(s[i])

----------------------------------------------------------------------------
(* State and channels *)

Undef == <<>>
Def(v) == <<v>>

\* state.x || [] and state.x || "" : the channel's value, or the empty sequence
OrEmpty(ch) == IF ch = Undef THEN <<>> ELSE ch[1]

ChannelsC == {"input", "filteredFlights", "options", "selectedCountry",
              "selectedCity", "selectedAirport", "userChoice"}

EmptyStateC == [ch \in ChannelsC |-> Undef]

NoUpdate == [ch \in {} |-> Undef]

\* a merge that keeps nothing of the previous state: a channel the update
\* does not hold becomes undefined
MergeReplacing(old, upd) ==
    [ch \in (DOMAIN old) \cup (DOMAIN upd) |->
        IF ch \in DOMAIN upd THEN upd[ch] ELSE Undef]

\* Every channel is a last-value channel: a channel present in the update is
\* overwritten, the others keep their value.
Merge(old, upd) == upd @@ old

----------------------------------------------------------------------------
(* Collaborators *)

\* The documents the index ranks for the query, best first (the ten flights
\* of the recorded run). A search finds the first m of them.
Ranked == <<"KIX", "SIN", "PVG", "UKY", "BKK", "CTS", "NRT", "ICN", "BOM", "HND">>

Min(a, b) == IF a < b THEN a ELSE b

\* vectorStore.similaritySearch(query, k) when m documents match
similaritySearch(m, k) == SubSeq(Ranked, 1, Min(m, k))

\* Lines the operator may type at the prompt
UserAnswers ==
    { <<"2">>, <<"3">>, <<"0">>, <<"1", "1">>, <<" ", "1", " ">>,
      <<"J", "a", "p", "a", "n">>, <<>> }

\* Answers the language model may give (llmResponse.content)
LLMContents ==
    { <<"1", ",", "4", ",", "6", ",", "7", ",", "1", "0">>,
      <<"4", ",", "5">>,
      <<"2">>,
      <<"3">>,
      <<" ", "1", ",", " ", "2", " ">>,
      <<"2", ",", "1", ",", "2">>,
      <<"0">>,
      <<"1", "2">>,
      <<"n", "o", "n", "e">>,
      <<"1", ",", "x", ",", "3">>,
      <<>> }

----------------------------------------------------------------------------
(* Circular workflow: nodes (each returns its partial update) *)

\* the limit passed to similaritySearch by initialize
SearchLimitC == 10

initialize(state, m) ==
    [filteredFlights |-> Def(similaritySearch(m, SearchLimitC))]

showFlights(state) ==
    [filteredFlights |-> Def(OrEmpty(state.filteredFlights))]

\* The value interrupt() hands over
QuestionC == [question |-> "Refine your search"]

\* requestChoice that keeps an earlier choice when there is one
requestChoiceKeepingFirst(state, v) ==
    [userChoice |-> IF state.userChoice = Undef THEN Def(v) ELSE state.userChoice]

\* requestChoice that also resets the list of flights
requestChoiceClearing(state, v) ==
    [userChoice |-> Def(v), filteredFlights |-> Def(<<>>)]

\* requestChoice once interrupt() has returned v
requestChoice(state, v) == [userChoice |-> Def(v)]

\* a disambiguateSelection that always asks the language model
SelectsByNumberNever(state) == FALSE

\* The branch of disambiguateSelection taken without the language model
SelectsByNumber(state) ==
    LET flights == OrEmpty(state.filteredFlights)
        userInput == OrEmpty(state.userChoice)
    IN  /\ numberRegex(userInput)
        /\ InRange(MinusOne(ParseInt(userInput)), Len(flights))

\* .split(",").map(n => parseInt(n.trim(), 10) - 1); `parsed` is the
\* number each distinct piece maps to
ParseAll(parts) ==
    LET parsed == [n \in {parts[i] : i \in 1..Len(parts)} |->
                      MinusOne(ParseInt(Trim(n)))]
    IN  [i \in 1..Len(parts) |-> parsed[parts[i]]]

\* .filter(i => i >= 0 && i < len)
FilterInRange(xs, len) == SelectSeq(xs, LAMBDA x : InRange(x, len))

selectedNumbers(content, len) == FilterInRange(ParseAll(Split(Trim(content))), len)

disambiguateSelection(state, content) ==
    LET flights == OrEmpty(state.filteredFlights)
        userInput == OrEmpty(state.userChoice)
    IN  IF SelectsByNumber(state)
        THEN [filteredFlights |-> Def(<<flights[ParseInt(userInput).n]>>)]
        ELSE LET sel == selectedNumbers(content, Len(flights))
             IN  [filteredFlights |-> Def([i \in 1..Len(sel) |-> flights[sel[i].n + 1]])]

showFinalFlight(state) == NoUpdate

\* showFinalFlight: const flight = state.filteredFlights[0]; if (!flight)
\* prints "No flight found" and returns
noFlightFound(state) == Len(OrEmpty(state.filteredFlights)) = 0

----------------------------------------------------------------------------
(* Circular workflow: graph *)

\* a router that stops as soon as at most two flights are left
routerCAtMostTwo(state) ==
    IF Len(OrEmpty(state.filteredFlights)) <= 2 THEN "final" ELSE "continue"

\* a router that never selects "final" while a flight is left
routerCNeverFinal(state) ==
    IF Len(OrEmpty(state.filteredFlights)) = 0 THEN "final" ELSE "continue"

\* The routing function of the conditional edge out of showFlights
routerC(state) ==
    IF Len(OrEmpty(state.filteredFlights)) = 1 THEN "final" ELSE "continue"

\* The label mapping of the conditional edge
branchC(label) ==
    CASE label = "final" -> "showFinalFlight"
      [] label = "continue" -> "requestChoice"

\* the edges with the loop back misspelt
edgeCMisspelt(node) ==
    CASE node = "__start__" -> "initialize"
      [] node = "initialize" -> "showFlights"
      [] node = "requestChoice" -> "disambiguateSelection"
      [] node = "disambiguateSelection" -> "showFlight"
      [] node = "showFinalFlight" -> "__end__"

\* addEdge(source, destination)
edgeC(node) ==
    CASE node = "__start__" -> "initialize"
      [] node = "initialize" -> "showFlights"
      [] node = "requestChoice" -> "disambiguateSelection"
      [] node = "disambiguateSelection" -> "showFlights"
      [] node = "showFinalFlight" -> "__end__"

\* addNode(name, handler)
NodesC == {"initialize", "showFlights", "requestChoice", "disambiguateSelection",
           "showFinalFlight"}

\* the sources of the addEdge calls
EdgeSourcesC == {"__start__", "initialize", "requestChoice", "disambiguateSelection",
                 "showFinalFlight"}

\* the source of addConditionalEdges and the labels its mapping holds
ConditionalSourceC == "showFlights"

MappedLabelsC == {"final", "continue"}

\* the nodes a node's edges lead to
SuccessorsC(node) ==
    IF node = ConditionalSourceC THEN {branchC(label) : label \in MappedLabelsC}
    ELSE IF node \in EdgeSourcesC THEN {edgeC(node)}
    ELSE {}

----------------------------------------------------------------------------
(* Engine: checkpoints, calls and the interrupt *)

\* the single-pass program run under the circular program's thread_id
ThreadSShared == "hitl-circular-thread"

\* config.configurable.thread_id of each program
ThreadC == "hitl-circular-thread"

ThreadS == "hitl-thread"

Threads == {ThreadC, ThreadS}

None == <<>>

NoCheckpoint == [values |-> NoUpdate, next |-> "__none__", interrupt |-> None]

\* The checkpoint written after a step: the merged state, the node to run
\* next, and the pending interrupt if the step raised one
Checkpoint(values, next, interrupt) ==
    [values |-> values, next |-> next, interrupt |-> interrupt]

\* checkpointer.put under the config's thread_id
Save(st, thread, ckpt) == [st EXCEPT ![thread] = ckpt]

Idle == [values |-> NoUpdate, cursor |-> "__idle__", resume |-> None]

\* app.invoke(input, config): the input is written over the thread's state
\* (empty on a fresh checkpointer) and the run starts after __start__
PlainCallC(ckpt, input) ==
    [values |-> Merge(IF ckpt.next = "__none__" THEN EmptyStateC ELSE ckpt.values, input),
     cursor |-> edgeC("__start__"),
     resume |-> None]

\* the resume value passed as a plain input: app.invoke({ input: v }, config)
ResumeAsInputC(ckpt, v) == PlainCallC(ckpt, [input |-> Def(v)])

\* a resume that starts again at the listing node
ResumeAtListingC(ckpt, v) ==
    [values |-> ckpt.values, cursor |-> "showFlights", resume |-> Def(v)]

\* app.invoke(new Command({ resume: v }), config): the run continues from
\* the thread's checkpoint, at the node that raised the interrupt, and
\* interrupt() returns v there
ResumeCallC(ckpt, v) ==
    [values |-> ckpt.values, cursor |-> ckpt.next, resume |-> Def(v)]

\* What app.invoke resolves to: the state values, with __interrupt__ when
\* the run was suspended
Outcome(values, interrupts) == [values |-> values, interrupts |-> interrupts]

NoOutcome == Outcome(NoUpdate, <<>>)

----------------------------------------------------------------------------
(* Circular workflow: the run *)

\* The query main() searches for
QuestionTextC == <<"A", "s", "i", "a">>

InitC ==
    /\ drvC = "invoke"
    /\ curC = NoOutcome
    /\ runC = Idle
    /\ ansC = <<>>
    /\ nSentC = 0
    /\ nSeenC = 0
    /\ seenC = Undef
    /\ showRunsC = 0
    /\ visitsC = 0
    /\ routerLogC = <<>>
    /\ refC = EmptyStateC

\* One completed node: its update is merged, the cursor moves to `next`, and
\* the checkpoint is written before the next node is looked at.
CompleteC(upd, next) ==
    LET values == Merge(runC.values, upd)
    IN  /\ runC' = [values |-> values, cursor |-> next, resume |-> None]
        /\ store' = Save(store, ThreadC, Checkpoint(values, next, None))
        /\ visitsC' = IF next = "showFlights" THEN visitsC + 1 ELSE visitsC

\* main(): let currentState = await app.invoke({ input: question }, config)
MainInvokeC ==
    /\ drvC = "invoke"
    /\ LET run == PlainCallC(store[ThreadC], [input |-> Def(QuestionTextC)])
       IN  /\ runC' = run
           /\ store' = Save(store, ThreadC, Checkpoint(run.values, run.cursor, None))
    /\ refC' = Merge(EmptyStateC, [input |-> Def(QuestionTextC)])
    /\ drvC' = "await"
    /\ UNCHANGED <<curC, ansC, nSentC, nSeenC, seenC, showRunsC, visitsC, routerLogC>>
    /\ UNCHANGED <<varsS, varsI>>

\* Node initialize: the search finds m documents
StepInitialize(m) ==
    /\ runC.cursor = "initialize"
    /\ CompleteC(initialize(runC.values, m), edgeC("initialize"))
    /\ refC' = Merge(refC, initialize(refC, m))
    /\ UNCHANGED <<drvC, curC, ansC, nSentC, nSeenC, seenC, showRunsC, routerLogC>>
    /\ UNCHANGED <<varsS, varsI>>

\* Node showFlights, then the conditional edge evaluated on the merged state
StepShowFlights ==
    /\ runC.cursor = "showFlights"
    /\ LET values == Merge(runC.values, showFlights(runC.values))
           label == routerC(values)
       IN  /\ CompleteC(showFlights(runC.values), branchC(label))
           /\ routerLogC' = Append(routerLogC,
                  [size |-> Len(OrEmpty(values.filteredFlights)), label |-> label])
    /\ showRunsC' = showRunsC + 1
    /\ refC' = Merge(refC, showFlights(refC))
    /\ UNCHANGED <<drvC, curC, ansC, nSentC, nSeenC, seenC>>
    /\ UNCHANGED <<varsS, varsI>>

\* Node requestChoice, first execution: interrupt() suspends the run. The
\* checkpoint keeps the state, the interrupted node and the payload, and
\* app.invoke resolves with __interrupt__ set.
StepRequestChoiceInterrupt ==
    /\ runC.cursor = "requestChoice"
    /\ runC.resume = None
    /\ store' = Save(store, ThreadC,
                     Checkpoint(runC.values, "requestChoice", Def(QuestionC)))
    /\ curC' = Outcome(runC.values, <<QuestionC>>)
    /\ runC' = Idle
    /\ drvC' = "check"
    /\ UNCHANGED <<ansC, nSentC, nSeenC, seenC, showRunsC, visitsC, routerLogC, refC>>
    /\ UNCHANGED <<varsS, varsI>>

\* Node requestChoice, resumed: interrupt() returns the resume value
StepRequestChoiceResume ==
    /\ runC.cursor = "requestChoice"
    /\ runC.resume # None
    /\ CompleteC(requestChoice(runC.values, runC.resume[1]), edgeC("requestChoice"))
    /\ refC' = Merge(refC, [userChoice |-> Def(ansC)])
    /\ UNCHANGED <<drvC, curC, ansC, nSentC, nSeenC, seenC, showRunsC, routerLogC>>
    /\ UNCHANGED <<varsS, varsI>>

\* Node disambiguateSelection; the language model answers `content` when
\* it is asked
StepDisambiguateSelection(content) ==
    /\ runC.cursor = "disambiguateSelection"
    /\ CompleteC(disambiguateSelection(runC.values, content),
                 edgeC("disambiguateSelection"))
    /\ nSeenC' = nSeenC + 1
    /\ seenC' = runC.values.userChoice
    /\ refC' = Merge(refC, disambiguateSelection(refC, content))
    /\ UNCHANGED <<drvC, curC, ansC, nSentC, showRunsC, routerLogC>>
    /\ UNCHANGED <<varsS, varsI>>

\* Node showFinalFlight
StepShowFinalFlight ==
    /\ runC.cursor = "showFinalFlight"
    /\ CompleteC(showFinalFlight(runC.values), edgeC("showFinalFlight"))
    /\ refC' = Merge(refC, showFinalFlight(refC))
    /\ UNCHANGED <<drvC, curC, ansC, nSentC, nSeenC, seenC, showRunsC, routerLogC>>
    /\ UNCHANGED <<varsS, varsI>>

\* The cursor is on __end__: app.invoke resolves with the final state
FinishC ==
    /\ runC.cursor = "__end__"
    /\ curC' = Outcome(runC.values, <<>>)
    /\ runC' = Idle
    /\ drvC' = "check"
    /\ UNCHANGED <<store, ansC, nSentC, nSeenC, seenC, showRunsC, visitsC,
                   routerLogC, refC>>
    /\ UNCHANGED <<varsS, varsI>>

\* a loop condition that is always true
pendingInterruptAlways(currentState) == TRUE

\* currentState.__interrupt__?.length > 0
pendingInterrupt(currentState) == Len(currentState.interrupts) > 0

\* main(): while (currentState.__interrupt__?.length > 0)
MainCheckC ==
    /\ drvC = "check"
    /\ drvC' = IF pendingInterrupt(curC) THEN "prompt" ELSE "exit"
    /\ UNCHANGED <<store, curC, runC, ansC, nSentC, nSeenC, seenC, showRunsC,
                   visitsC, routerLogC, refC>>
    /\ UNCHANGED <<varsS, varsI>>

\* getUserInput: the line typed, trimmed
getUserInput(line) == Trim(line)

\* main(): const userChoice = await getUserInput(...)
MainPromptC(line) ==
    /\ drvC = "prompt"
    /\ nSentC < MaxResumes
    /\ ansC' = getUserInput(line)
    /\ drvC' = "resume"
    /\ UNCHANGED <<store, curC, runC, nSentC, nSeenC, seenC, showRunsC, visitsC,
                   routerLogC, refC>>
    /\ UNCHANGED <<varsS, varsI>>

\* main(): currentState = await app.invoke(new Command({ resume: userChoice }), config)
MainResumeC ==
    /\ drvC = "resume"
    /\ runC' = ResumeCallC(store[ThreadC], ansC)
    /\ nSentC' = nSentC + 1
    /\ drvC' = "await"
    /\ UNCHANGED <<store, curC, ansC, nSeenC, seenC, showRunsC, visitsC,
                   routerLogC, refC>>
    /\ UNCHANGED <<varsS, varsI>>

----------------------------------------------------------------------------
(* Single-pass workflow: nodes *)

ChannelsS == {"input", "candidates", "userChoice", "selected", "final"}

EmptyStateS == [ch \in ChannelsS |-> Undef]

\* the limit passed to similaritySearch by retrieveFlights
SearchLimitS == 5

\* a retrieveFlights that keeps every document of the search
CandidateCapAll == SearchLimitS

\* the length at which retrieveFlights stops pushing candidates
CandidateCap == 2

\* for (const d of results) { candidates.push(d); if (candidates.length >= 2) break; }
RECURSIVE PushUntilCap(_, _)
PushUntilCap(results, candidates) ==
    IF results = <<>> THEN candidates
    ELSE LET pushed == Append(candidates, Head(results))
         IN  IF Len(pushed) >= CandidateCap THEN pushed
             ELSE PushUntilCap(Tail(results), pushed)

retrieveFlights(state, results) ==
    [candidates |-> Def(PushUntilCap(results, <<>>))]

\* The text built from a document's metadata: never empty
formatFlightDetails(doc) == <<"Selected flight: ", doc>>

\* evaluateResults without the automatic selection of a single candidate
evaluateResultsNoAutoSelect(state) ==
    [candidates |-> Def(OrEmpty(state.candidates))]

\* evaluateResults that sets the final text of a single candidate without
\* selecting it
evaluateResultsFinalOnly(state) ==
    LET candidates == OrEmpty(state.candidates)
    IN  IF Len(candidates) = 1
        THEN [final |-> Def(formatFlightDetails(candidates[1]))]
        ELSE [candidates |-> Def(candidates)]

evaluateResults(state) ==
    LET candidates == OrEmpty(state.candidates)
    IN  IF Len(candidates) = 1
        THEN [selected |-> Def(candidates[1]),
              final |-> Def(formatFlightDetails(candidates[1]))]
        ELSE [candidates |-> Def(candidates)]

\* showResults returns the state it was given
showResults(state) == state

QuestionS == [question |-> "Which flight do you prefer?:"]

\* requestUserChoice once interrupt() has returned v
requestUserChoice(v) == [userChoice |-> Def(v)]

\* selectedFlight is undefined, so selectedFlight.metadata throws
disambiguateThrows(state) == Len(OrEmpty(state.candidates)) = 0

\* Number.parseInt(content, 10) - 1 (main.js: parseInt(content.trim()) - 1,
\* the same number for the decimal answers drawn here)
disambiguateAndAnswer(state, content) ==
    LET candidates == OrEmpty(state.candidates)
        selectedNumber == MinusOne(ParseInt(content))
        selectedFlight == IF InRange(selectedNumber, Len(candidates))
                          THEN candidates[selectedNumber.n + 1]
                          ELSE candidates[1]
    IN  [selected |-> Def(selectedFlight),
         final |-> Def(formatFlightDetails(selectedFlight))]

----------------------------------------------------------------------------
(* Single-pass workflow: graph *)

\* if (state.final): a defined, non-empty string
Truthy(ch) == ch # Undef /\ ch[1] # <<>>

routerS(state) == IF Truthy(state.final) THEN "complete" ELSE "multiple"

branchS(label) ==
    CASE label = "complete" -> "__end__"
      [] label = "multiple" -> "showResults"

edgeS(node) ==
    CASE node = "__start__" -> "retrieveFlights"
      [] node = "retrieveFlights" -> "evaluateResults"
      [] node = "showResults" -> "requestUserChoice"
      [] node = "requestUserChoice" -> "disambiguateAndAnswer"
      [] node = "disambiguateAndAnswer" -> "__end__"

NodesS == {"retrieveFlights", "evaluateResults", "showResults", "requestUserChoice",
           "disambiguateAndAnswer"}

EdgeSourcesS == {"__start__", "retrieveFlights", "showResults", "requestUserChoice",
                 "disambiguateAndAnswer"}

ConditionalSourceS == "evaluateResults"

MappedLabelsS == {"complete", "multiple"}

SuccessorsS(node) ==
    IF node = ConditionalSourceS THEN {branchS(label) : label \in MappedLabelsS}
    ELSE IF node \in EdgeSourcesS THEN {edgeS(node)}
    ELSE {}

PlainCallS(ckpt, input) ==
    [values |-> Merge(IF ckpt.next = "__none__" THEN EmptyStateS ELSE ckpt.values, input),
     cursor |-> edgeS("__start__"),
     resume |-> None]

ResumeCallS(ckpt, v) ==
    [values |-> ckpt.values, cursor |-> ckpt.next, resume |-> Def(v)]

----------------------------------------------------------------------------
(* Single-pass workflow: the run *)

QuestionTextS == <<"T", "o", "k", "y", "o">>

InitS ==
    /\ drvS = "invoke"
    /\ curS = NoOutcome
    /\ runS = Idle
    /\ ansS = <<>>
    /\ hitsS = <<>>
    /\ nSentS = 0
    /\ interruptsS = 0
    /\ showRunsS = 0
    /\ askedS = None
    /\ printedS = None
    /\ refS = EmptyStateS

CompleteS(upd, next) ==
    LET values == Merge(runS.values, upd)
    IN  /\ runS' = [values |-> values, cursor |-> next, resume |-> None]
        /\ store' = Save(store, ThreadS, Checkpoint(values, next, None))

\* main(): let currentState = await app.invoke({ input: question }, config)
MainInvokeS ==
    /\ drvS = "invoke"
    /\ LET run == PlainCallS(store[ThreadS], [input |-> Def(QuestionTextS)])
       IN  /\ runS' = run
           /\ store' = Save(store, ThreadS, Checkpoint(run.values, run.cursor, None))
    /\ refS' = Merge(EmptyStateS, [input |-> Def(QuestionTextS)])
    /\ drvS' = "await"
    /\ UNCHANGED <<curS, ansS, hitsS, nSentS, interruptsS, showRunsS, askedS, printedS>>
    /\ UNCHANGED <<varsC, varsI>>

\* Node retrieveFlights: the search finds m documents
StepRetrieveFlights(m) ==
    /\ runS.cursor = "retrieveFlights"
    /\ hitsS' = similaritySearch(m, SearchLimitS)
    /\ CompleteS(retrieveFlights(runS.values, hitsS'), edgeS("retrieveFlights"))
    /\ refS' = Merge(refS, retrieveFlights(refS, hitsS'))
    /\ UNCHANGED <<drvS, curS, ansS, nSentS, interruptsS, showRunsS, askedS, printedS>>
    /\ UNCHANGED <<varsC, varsI>>

\* Node evaluateResults, then the conditional edge evaluated on the merged state
StepEvaluateResults ==
    /\ runS.cursor = "evaluateResults"
    /\ LET values == Merge(runS.values, evaluateResults(runS.values))
       IN  CompleteS(evaluateResults(runS.values), branchS(routerS(values)))
    /\ refS' = Merge(refS, evaluateResults(refS))
    /\ UNCHANGED <<drvS, curS, ansS, hitsS, nSentS, interruptsS, showRunsS, askedS,
                   printedS>>
    /\ UNCHANGED <<varsC, varsI>>

\* Node showResults
StepShowResults ==
    /\ runS.cursor = "showResults"
    /\ CompleteS(showResults(runS.values), edgeS("showResults"))
    /\ showRunsS' = showRunsS + 1
    /\ refS' = Merge(refS, showResults(refS))
    /\ UNCHANGED <<drvS, curS, ansS, hitsS, nSentS, interruptsS, askedS, printedS>>
    /\ UNCHANGED <<varsC, varsI>>

\* Node requestUserChoice, first execution: interrupt() suspends the run
StepRequestUserChoiceInterrupt ==
    /\ runS.cursor = "requestUserChoice"
    /\ runS.resume = None
    /\ store' = Save(store, ThreadS,
                     Checkpoint(runS.values, "requestUserChoice", Def(QuestionS)))
    /\ curS' = Outcome(runS.values, <<QuestionS>>)
    /\ runS' = Idle
    /\ interruptsS' = interruptsS + 1
    /\ drvS' = "check"
    /\ UNCHANGED <<ansS, hitsS, nSentS, showRunsS, askedS, printedS, refS>>
    /\ UNCHANGED <<varsC, varsI>>

\* Node requestUserChoice, resumed: interrupt() returns the resume value
StepRequestUserChoiceResume ==
    /\ runS.cursor = "requestUserChoice"
    /\ runS.resume # None
    /\ CompleteS(requestUserChoice(runS.resume[1]), edgeS("requestUserChoice"))
    /\ refS' = Merge(refS, [userChoice |-> Def(ansS)])
    /\ UNCHANGED <<drvS, curS, ansS, hitsS, nSentS, interruptsS, showRunsS, askedS,
                   printedS>>
    /\ UNCHANGED <<varsC, varsI>>

\* Node disambiguateAndAnswer; the language model answers `content`
StepDisambiguateAndAnswer(content) ==
    /\ runS.cursor = "disambiguateAndAnswer"
    /\ ~disambiguateThrows(runS.values)
    /\ CompleteS(disambiguateAndAnswer(runS.values, content),
                 edgeS("disambiguateAndAnswer"))
    /\ askedS' = Def(content)
    /\ refS' = Merge(refS, disambiguateAndAnswer(refS, content))
    /\ UNCHANGED <<drvS, curS, ansS, hitsS, nSentS, interruptsS, showRunsS, printedS>>
    /\ UNCHANGED <<varsC, varsI>>

\* Node disambiguateAndAnswer throws: no checkpoint is written, app.invoke
\* rejects and main() ends on the unhandled rejection
StepDisambiguateAndAnswerThrows ==
    /\ runS.cursor = "disambiguateAndAnswer"
    /\ disambiguateThrows(runS.values)
    /\ runS' = Idle
    /\ drvS' = "crashed"
    /\ UNCHANGED <<store, curS, ansS, hitsS, nSentS, interruptsS, showRunsS, askedS,
                   printedS, refS>>
    /\ UNCHANGED <<varsC, varsI>>

\* The cursor is on __end__: app.invoke resolves with the final state
FinishS ==
    /\ runS.cursor = "__end__"
    /\ curS' = Outcome(runS.values, <<>>)
    /\ runS' = Idle
    /\ drvS' = IF nSentS = 0 THEN "check" ELSE "print"
    /\ UNCHANGED <<store, ansS, hitsS, nSentS, interruptsS, showRunsS, askedS,
                   printedS, refS>>
    /\ UNCHANGED <<varsC, varsI>>

\* main(): if (currentState.__interrupt__ && currentState.__interrupt__.length > 0)
MainCheckS ==
    /\ drvS = "check"
    /\ drvS' = IF Len(curS.interrupts) > 0 THEN "prompt" ELSE "print"
    /\ UNCHANGED <<store, curS, runS, ansS, hitsS, nSentS, interruptsS, showRunsS,
                   askedS, printedS, refS>>
    /\ UNCHANGED <<varsC, varsI>>

\* main(): const userChoice = await getUserInput(...)
MainPromptS(line) ==
    /\ drvS = "prompt"
    /\ ansS' = getUserInput(line)
    /\ drvS' = "resume"
    /\ UNCHANGED <<store, curS, runS, hitsS, nSentS, interruptsS, showRunsS, askedS,
                   printedS, refS>>
    /\ UNCHANGED <<varsC, varsI>>

\* main(): currentState = await app.invoke(new Command({ resume: userChoice }), config)
MainResumeS ==
    /\ drvS = "resume"
    /\ runS' = ResumeCallS(store[ThreadS], ansS)
    /\ nSentS' = nSentS + 1
    /\ drvS' = "await"
    /\ UNCHANGED <<store, curS, ansS, hitsS, interruptsS, showRunsS, askedS,
                   printedS, refS>>
    /\ UNCHANGED <<varsC, varsI>>

\* main(): console.log("Final result:", currentState.final)
MainPrintS ==
    /\ drvS = "print"
    /\ printedS' = Def(curS.values.final)
    /\ drvS' = "exit"
    /\ UNCHANGED <<store, curS, runS, ansS, hitsS, nSentS, interruptsS, showRunsS,
                   askedS, refS>>
    /\ UNCHANGED <<varsC, varsI>>

----------------------------------------------------------------------------
(* Data ingestion *)

\* The entries dataset.json may hold: a document with pageContent, one with
\* text only, one with neither and no metadata
RawDocuments ==
    { [pageContent |-> Def("Flight to Tokyo"), text |-> Undef, metadata |-> Def("NRT")],
      [pageContent |-> Undef, text |-> Def("Flight to Osaka"), metadata |-> Def("KIX")],
      [pageContent |-> Undef, text |-> Undef, metadata |-> Undef] }

RECURSIVE SeqsUpTo(_, _)
SeqsUpTo(S, n) ==
    IF n = 0 THEN {<<>>}
    ELSE LET shorter == SeqsUpTo(S, n - 1)
         IN  shorter \cup {Append(q, x) : q \in shorter, x \in S}

\* What readFile and JSON.parse may give: a failure, or the entries
DatasetFiles ==
    {[readable |-> FALSE, data |-> <<>>]} \cup
    {[readable |-> TRUE, data |-> data] : data \in SeqsUpTo(RawDocuments, MaxDataset)}

\* a ?? b ?? c on the fields of an entry
Coalesce(a, b, c) == IF a # Undef THEN a[1] ELSE IF b # Undef THEN b[1] ELSE c

\* data.map(d => ({ pageContent: String(d.pageContent ?? d.text ?? ""),
\*                  metadata: d.metadata ?? {} }))
loadDataset(data) ==
    [i \in 1..Len(data) |->
        [pageContent |-> Coalesce(data[i].pageContent, data[i].text, ""),
         metadata |-> Coalesce(data[i].metadata, Undef, "{}")]]

\* loadDataset(datasetPath).catch(() => [])
initialDocs(file) == IF file.readable THEN loadDataset(file.data) ELSE <<>>

\* an ingestData that never skips
skipsIngestionNever(documentCount) == FALSE

\* if (documentCount > 0) return
skipsIngestion(documentCount) == documentCount > 0

InitI ==
    /\ esIndex = [exists |-> FALSE, docs |-> <<>>]
    /\ ingPc = "idle"
    /\ ingCalls = 0
    /\ afterFirst = Undef
    /\ addedFirst = 0

\* ingestData returns; `docs` are the documents of the index at that moment
\* and `added` the number the call added
IngestReturn(docs, added) ==
    /\ ingPc' = "idle"
    /\ ingCalls' = ingCalls + 1
    /\ afterFirst' = IF ingCalls = 0 THEN Def(docs) ELSE afterFirst
    /\ addedFirst' = IF ingCalls = 0 THEN added ELSE addedFirst

\* ingestData(): the index is created when it does not exist, and is then
\* found to exist
IngestEnsureIndex ==
    /\ ingPc = "idle"
    /\ ingCalls < MaxCalls
    /\ esIndex' = IF esIndex.exists THEN esIndex ELSE [exists |-> TRUE, docs |-> <<>>]
    /\ ingPc' = "count"
    /\ UNCHANGED <<ingCalls, afterFirst, addedFirst>>
    /\ UNCHANGED <<store, varsC, varsS>>

\* ingestData(): the documents are counted; the call returns when there are any
IngestCount ==
    /\ ingPc = "count"
    /\ IF skipsIngestion(Len(esIndex.docs))
       THEN IngestReturn(esIndex.docs, 0)
       ELSE /\ ingPc' = "load"
            /\ UNCHANGED <<ingCalls, afterFirst, addedFirst>>
    /\ UNCHANGED esIndex
    /\ UNCHANGED <<store, varsC, varsS>>

\* ingestData(): the dataset is loaded and added to the index
IngestAddDocuments(file) ==
    /\ ingPc = "load"
    /\ LET docs == esIndex.docs \o initialDocs(file)
       IN  /\ esIndex' = [esIndex EXCEPT !.docs = docs]
           /\ IngestReturn(docs, Len(initialDocs(file)))
    /\ UNCHANGED <<store, varsC, varsS>>

----------------------------------------------------------------------------
(* Specifications *)

InitStore == store = [t \in Threads |-> NoCheckpoint]

Init == InitStore /\ InitC /\ InitS /\ InitI

\* One of the two programs is run: a program takes steps only while the
\* other has not been started
AloneC == drvS = "invoke"

AloneS == drvC = "invoke"

Next ==
    \/ AloneC /\ MainInvokeC
    \/ AloneC /\ \E m \in 0..Len(Ranked) : StepInitialize(m)
    \/ AloneC /\ StepShowFlights
    \/ AloneC /\ StepRequestChoiceInterrupt
    \/ AloneC /\ StepRequestChoiceResume
    \/ AloneC /\ \E content \in LLMContents : StepDisambiguateSelection(content)
    \/ AloneC /\ StepShowFinalFlight
    \/ AloneC /\ FinishC
    \/ AloneC /\ MainCheckC
    \/ AloneC /\ \E line \in UserAnswers : MainPromptC(line)
    \/ AloneC /\ MainResumeC
    \/ AloneS /\ MainInvokeS
    \/ AloneS /\ \E m \in 0..Len(Ranked) : StepRetrieveFlights(m)
    \/ AloneS /\ StepEvaluateResults
    \/ AloneS /\ StepShowResults
    \/ AloneS /\ StepRequestUserChoiceInterrupt
    \/ AloneS /\ StepRequestUserChoiceResume
    \/ AloneS /\ \E content \in LLMContents : StepDisambiguateAndAnswer(content)
    \/ AloneS /\ StepDisambiguateAndAnswerThrows
    \/ AloneS /\ FinishS
    \/ AloneS /\ MainCheckS
    \/ AloneS /\ \E line \in UserAnswers : MainPromptS(line)
    \/ AloneS /\ MainResumeS
    \/ AloneS /\ MainPrintS

Spec == Init /\ [][Next]_vars

\* Both programs, their steps interleaved, on one checkpointer keyed by
\* thread_id; the inputs are drawn from smaller sets
FewMatches == {0, 1, 3}

FewContents == { <<"2">>, <<"2", ",", "1", ",", "2">>, <<>> }

FewLines == { <<"2">>, <<"J", "a", "p", "a", "n">> }

NextBoth ==
    \/ MainInvokeC
    \/ \E m \in FewMatches : StepInitialize(m)
    \/ StepShowFlights
    \/ StepRequestChoiceInterrupt
    \/ StepRequestChoiceResume
    \/ \E content \in FewContents : StepDisambiguateSelection(content)
    \/ StepShowFinalFlight
    \/ FinishC
    \/ MainCheckC
    \/ \E line \in FewLines : MainPromptC(line)
    \/ MainResumeC
    \/ MainInvokeS
    \/ \E m \in FewMatches : StepRetrieveFlights(m)
    \/ StepEvaluateResults
    \/ StepShowResults
    \/ StepRequestUserChoiceInterrupt
    \/ StepRequestUserChoiceResume
    \/ \E content \in FewContents : StepDisambiguateAndAnswer(content)
    \/ StepDisambiguateAndAnswerThrows
    \/ FinishS
    \/ MainCheckS
    \/ \E line \in FewLines : MainPromptS(line)
    \/ MainResumeS
    \/ MainPrintS

SpecSessions == Init /\ [][NextBoth]_vars

\* A refinement that converges: disambiguateSelection returns a list that is
\* strictly shorter than the one it was given and not empty
Converges(state, content) ==
    LET given == OrEmpty(state.filteredFlights)
        returned == OrEmpty(disambiguateSelection(state, content).filteredFlights)
    IN  Len(returned) > 0 /\ Len(returned) < Len(given)

\* The search finds at most this many documents in the converging runs, so
\* that MaxResumes refinements are enough to come down to one flight
MaxConverging == MaxResumes + 1

\* The circular program when every refinement converges. Nodes run to their
\* end once started, main() goes on after each await, and the operator
\* answers every prompt: each step that stays enabled is eventually taken.
NextConverging ==
    \/ MainInvokeC
    \/ \E m \in 0..MaxConverging : StepInitialize(m)
    \/ StepShowFlights
    \/ StepRequestChoiceInterrupt
    \/ StepRequestChoiceResume
    \/ \E content \in LLMContents :
          /\ runC.cursor = "disambiguateSelection"
          /\ Converges(runC.values, content)
          /\ StepDisambiguateSelection(content)
    \/ StepShowFinalFlight
    \/ FinishC
    \/ MainCheckC
    \/ \E line \in UserAnswers : MainPromptC(line)
    \/ MainResumeC

SpecConverging == Init /\ [][NextConverging]_vars /\ WF_vars(NextConverging)

\* The program is started again and again: each start calls ingestData once
NextIngest ==
    \/ IngestEnsureIndex
    \/ IngestCount
    \/ \E file \in DatasetFiles : IngestAddDocuments(file)

SpecIngest == Init /\ [][NextIngest]_vars

----------------------------------------------------------------------------
(* Properties *)

SuspendedC == drvC \in {"check", "prompt", "resume"} /\ curC.interrupts # <<>>

CompletedC == drvC \in {"check", "exit"} /\ curC.interrupts = <<>>

SuspendedS == drvS \in {"check", "prompt", "resume"} /\ curS.interrupts # <<>>

CompletedS ==
    /\ drvS \in {"check", "print", "exit"}
    /\ curS.interrupts = <<>>
    /\ curS # NoOutcome

FlightsC(values) == OrEmpty(values.filteredFlights)

ScenarioSizes == <<10, 5, 2, 1>>

ScenarioPrefix(k) ==
    /\ Len(routerLogC) = k
    /\ \A i \in 1..k : routerLogC[i].size = ScenarioSizes[i]

\* C2: scenario C. When the router sees 10, then 5, then 2, then 1
\* flights, its first three evaluations select "continue", the run is
\* suspended at requestChoice after each of them and is not complete, and
\* the fourth selects "final": the cursor goes to showFinalFlight and the
\* end, the run completes, and exactly three resume calls were issued.
C2_ScenarioC ==
    /\ \A k \in 1..3 : ScenarioPrefix(k) =>
          /\ \A i \in 1..k : routerLogC[i].label = "continue"
          /\ ~CompletedC
          /\ nSentC \in {k - 1, k}
          /\ (drvC = "await" /\ nSentC = k - 1) => runC.cursor = "requestChoice"
          /\ drvC # "await" =>
                /\ SuspendedC
                /\ nSentC = k - 1
                /\ store[ThreadC].next = "requestChoice"
                /\ store[ThreadC].interrupt # None
          /\ (drvC = "await" /\ nSentC = k) =>
                runC.cursor \in {"requestChoice", "disambiguateSelection", "showFlights"}
    /\ ScenarioPrefix(4) =>
          /\ \A i \in 1..3 : routerLogC[i].label = "continue"
          /\ routerLogC[4].label = "final"
          /\ nSentC = 3
          /\ drvC = "await" => runC.cursor \in {"showFinalFlight", "__end__"}
          /\ drvC # "await" => CompletedC /\ store[ThreadC].next = "__end__"

\* C2 witness: the run that saw 10, 5, 2, 1 flights has ended
C2_Witness == ScenarioPrefix(4) /\ drvC = "exit"

\* C3: scenario A. When the search returns exactly one document, no
\* interrupt is ever raised, requestUserChoice (and the nodes around it) is
\* never the cursor, no resume is issued, and the run completes with that
\* document selected and the final text set.
C3_ScenarioA ==
    Len(hitsS) = 1 =>
        /\ interruptsS = 0
        /\ nSentS = 0
        /\ runS.cursor \notin {"showResults", "requestUserChoice", "disambiguateAndAnswer"}
        /\ drvS \in {"await", "check", "print", "exit"}
        /\ drvS # "await" =>
              /\ CompletedS
              /\ curS.values.selected = Def(hitsS[1])
              /\ Truthy(curS.values.final)

\* C3 witness: one hit, and main() printed the result and ended
C3_Witness == Len(hitsS) = 1 /\ drvS = "exit" /\ printedS # None

\* C4: scenario B, as claimed. When the search returns five documents, the
\* operator answers "3" and the language model reads that as "3", the
\* completed run has the third document selected.
C4_ScenarioB ==
    ( /\ Len(hitsS) = 5
      /\ drvS = "exit"
      /\ ansS = <<"3">>
      /\ askedS = Def(<<"3">>) )
    => curS.values.selected = Def(hitsS[3])

\* The checkpoint under a thread_id is the one its own program produced
OwnCheckpointC ==
    IF drvC = "invoke" THEN store[ThreadC] = NoCheckpoint
    ELSE /\ store[ThreadC].values = refC
         /\ drvC = "await" => store[ThreadC].next = runC.cursor
         /\ SuspendedC => store[ThreadC].next = "requestChoice"

OwnCheckpointS ==
    IF drvS = "invoke" THEN store[ThreadS] = NoCheckpoint
    ELSE /\ store[ThreadS].values = refS
         /\ drvS = "await" => store[ThreadS].next = runS.cursor
         /\ SuspendedS => store[ThreadS].next = "requestUserChoice"

\* A step of one program changes nothing of the other
StepLeavesOtherAlone ==
    /\ varsC' # varsC => (varsS' = varsS /\ store'[ThreadS] = store[ThreadS])
    /\ varsS' # varsS => (varsC' = varsC /\ store'[ThreadC] = store[ThreadC])

C9_ResumeValueDelivered ==
    /\ nSeenC <= nSentC
    /\ nSentC <= nSeenC + 1
    /\ (drvC = "await" /\ runC.resume # None) =>
          /\ runC.cursor = "requestChoice"
          /\ runC.resume = Def(ansC)
    /\ runC.cursor = "disambiguateSelection" =>
          /\ nSentC = nSeenC + 1
          /\ runC.values.userChoice = Def(ansC)
    /\ (nSeenC > 0 /\ nSeenC = nSentC /\ drvC # "resume") => seenC = Def(ansC)

\* C9 witness: the third disambiguateSelection read " 1 " trimmed to "1"
C9_Witness ==
    /\ nSeenC = 3
    /\ seenC = Def(<<"1">>)
    /\ drvC = "exit"

TouchedC(node) ==
    CASE node = "initialize" -> {"filteredFlights"}
      [] node = "showFlights" -> {"filteredFlights"}
      [] node = "requestChoice" -> {"userChoice"}
      [] node = "disambiguateSelection" -> {"filteredFlights"}
      [] node = "showFinalFlight" -> {}

\* A step in which a node of the circular workflow completed
NodeCompletedC ==
    /\ runC.cursor \notin {"__idle__", "__end__"}
    /\ runC'.cursor # "__idle__"
    /\ runC' # runC

FrameC ==
    NodeCompletedC =>
        /\ DOMAIN runC'.values = ChannelsC
        /\ \A ch \in ChannelsC \ TouchedC(runC.cursor) :
              /\ runC'.values[ch] = runC.values[ch]
              /\ store'[ThreadC].values[ch] = runC.values[ch]
        /\ runC.cursor = "requestChoice" =>
              /\ runC'.values.userChoice = runC.resume
              /\ runC'.values.input = runC.values.input
              /\ runC'.values.filteredFlights = runC.values.filteredFlights
        /\ runC.cursor = "showFinalFlight" => runC'.values = runC.values
        /\ runC.cursor = "initialize" =>
              \E m \in 0..Len(Ranked) :
                  runC'.values.filteredFlights = Def(similaritySearch(m, SearchLimitC))

\* A step in which a node of the single-pass workflow completed
NodeCompletedS ==
    /\ runS.cursor \notin {"__idle__", "__end__"}
    /\ runS'.cursor # "__idle__"
    /\ runS' # runS

FrameS ==
    NodeCompletedS =>
        /\ DOMAIN runS'.values = ChannelsS
        /\ runS.cursor = "retrieveFlights" =>
              \A ch \in ChannelsS \ {"candidates"} : runS'.values[ch] = runS.values[ch]
        /\ runS.cursor = "evaluateResults" =>
              /\ runS'.values.input = runS.values.input
              /\ runS'.values.candidates = runS.values.candidates
              /\ runS'.values.userChoice = runS.values.userChoice
        /\ runS.cursor = "showResults" => runS'.values = runS.values
        /\ runS.cursor = "requestUserChoice" =>
              /\ \A ch \in ChannelsS \ {"userChoice"} :
                    runS'.values[ch] = runS.values[ch]
              /\ runS'.values.userChoice = runS.resume
        /\ runS.cursor = "disambiguateAndAnswer" =>
              /\ runS'.values.input = runS.values.input
              /\ runS'.values.candidates = runS.values.candidates
              /\ runS'.values.userChoice = runS.values.userChoice

\* C11: merging a node's partial update changes only the channels the update
\* holds. In every step that completes a node, each channel the node does
\* not return has the value it had before the step, in the run and in the
\* checkpoint written by the step: requestChoice, which returns userChoice
\* alone, leaves input and filteredFlights as they were and sets userChoice
\* to the resume value, whatever userChoice held before; showFinalFlight,
\* which returns {}, leaves the whole state as it was; a channel a node
\* returns holds the returned value after the step.
C11_MergeFrame == [][FrameC /\ FrameS]_vars

\* C11 witness: after two resumes, the second overwriting userChoice with
\* "2", showFinalFlight has completed and the input and the single flight
\* are still there
C11_Witness ==
    /\ runC.cursor = "__end__"
    /\ nSentC = 2
    /\ runC.values.userChoice = Def(<<"2">>)
    /\ runC.values.input = Def(QuestionTextC)
    /\ Len(FlightsC(runC.values)) = 1

\* The position disambiguateAndAnswer reads in candidates for an answer of
\* the language model: the number answered, or 0 as the fallback
IndexReadS(state, content) ==
    LET selectedNumber == MinusOne(ParseInt(content))
    IN  IF InRange(selectedNumber, Len(OrEmpty(state.candidates)))
        THEN selectedNumber.n ELSE 0

\* The positions disambiguateSelection reads in flights for an answer
IndicesReadC(state, content) ==
    LET sel == selectedNumbers(content, Len(FlightsC(state)))
    IN  {sel[i].n : i \in 1..Len(sel)}

\* C13: an invalid answer of the language model never becomes a fatal
\* error. Whatever list of candidates reaches a disambiguation node and
\* whatever the language model answers, the node does not throw (main() is
\* never ended by a rejected app.invoke) and every position it reads in the
\* list is within 0..length-1.
C13_InvalidAnswerHandled ==
    /\ drvS # "crashed"
    /\ runS.cursor = "disambiguateAndAnswer" =>
          \A content \in LLMContents :
              /\ ~disambiguateThrows(runS.values)
              /\ IndexReadS(runS.values, content) \in
                    0..(Len(OrEmpty(runS.values.candidates)) - 1)
    /\ runC.cursor = "disambiguateSelection" =>
          \A content \in LLMContents :
              IndicesReadC(runC.values, content) \subseteq
                  0..(Len(FlightsC(runC.values)) - 1)

\* The run stands before a refinement of an empty list, which no answer can
\* make converge
NothingToRefine ==
    /\ runC.cursor = "disambiguateSelection"
    /\ FlightsC(runC.values) = <<>>

\* The circular run is complete: the last router evaluation selected
\* "final", the cursor reached the end and main() left its loop
FinishedC ==
    /\ drvC = "exit"
    /\ CompletedC
    /\ routerLogC # <<>>
    /\ routerLogC[Len(routerLogC)].label = "final"
    /\ store[ThreadC].next = "__end__"

\* C14: termination of the circular workflow under convergence. When every
\* refinement returns a list strictly shorter than the one it was given and
\* not empty, and every prompt is answered and every resume delivered, the
\* run eventually completes: the router selects "final", the cursor reaches
\* the end and main() leaves its loop. (A search that finds nothing leaves
\* no refinement that converges; such a run is outside the hypothesis.)
C14_TerminatesWhenConverging == <>(FinishedC \/ NothingToRefine)

\* C14 witness: a run that came down from four flights to one in three
\* refinements has completed
C14_Witness ==
    /\ FinishedC
    /\ nSentC = 3
    /\ Len(routerLogC) = 4
    /\ routerLogC[1].size = 4
    /\ routerLogC[2].size = 3
    /\ routerLogC[3].size = 2
    /\ routerLogC[4].size = 1

\* The nodes that can be reached from `seen` along the edges of a graph
RECURSIVE ReachC(_)
ReachC(seen) ==
    LET more == seen \cup UNION {SuccessorsC(node) : node \in seen}
    IN  IF more = seen THEN seen ELSE ReachC(more)

RECURSIVE ReachS(_)
ReachS(seen) ==
    LET more == seen \cup UNION {SuccessorsS(node) : node \in seen}
    IN  IF more = seen THEN seen ELSE ReachS(more)

\* Every edge starts at the start marker or a declared node and ends at a
\* declared node or the end marker, and every declared node can be reached
\* from the start marker
WellFormedC ==
    /\ EdgeSourcesC \cup {ConditionalSourceC} \subseteq NodesC \cup {"__start__"}
    /\ \A node \in EdgeSourcesC \cup {ConditionalSourceC} :
          SuccessorsC(node) \subseteq NodesC \cup {"__end__"}
    /\ NodesC \cup {"__end__"} \subseteq ReachC({"__start__"})

WellFormedS ==
    /\ EdgeSourcesS \cup {ConditionalSourceS} \subseteq NodesS \cup {"__start__"}
    /\ \A node \in EdgeSourcesS \cup {ConditionalSourceS} :
          SuccessorsS(node) \subseteq NodesS \cup {"__end__"}
    /\ NodesS \cup {"__end__"} \subseteq ReachS({"__start__"})

C17_NoPartialCompletedState ==
    CompletedS =>
        LET candidates == OrEmpty(curS.values.candidates)
            selected == curS.values.selected
        IN  /\ candidates = PushUntilCap(hitsS, <<>>)
            /\ selected # Undef
            /\ \E i \in 1..Len(candidates) : selected = Def(candidates[i])
            /\ Truthy(curS.values.final)
            /\ curS.values.final = Def(formatFlightDetails(selected[1]))
            /\ Len(candidates) = 1 => (selected = Def(candidates[1]) /\ askedS = None)
            /\ Len(candidates) > 1 =>
                  /\ askedS # None
                  /\ selected = Def(candidates[IndexReadS(curS.values, askedS[1]) + 1])
            /\ drvS = "exit" => printedS = Def(curS.values.final)

\* C17 witness: with several hits and the answer "none" the run completed
\* on the first candidate
C17_Witness ==
    /\ drvS = "exit"
    /\ Len(hitsS) = 5
    /\ askedS = Def(<<"n", "o", "n", "e">>)
    /\ curS.values.selected = Def(hitsS[1])

\* C18: the single-pass router, as claimed. When retrieval produced no
\* candidate or one, the router returns "complete" and the run goes to the
\* end without an interrupt; it returns "multiple" only when there are at
\* least two candidates.
C18_RouterCompleteUpToOne ==
    /\ runS.cursor = "evaluateResults" =>
          LET values == Merge(runS.values, evaluateResults(runS.values))
              count == Len(OrEmpty(runS.values.candidates))
          IN  /\ count <= 1 =>
                    /\ routerS(values) = "complete"
                    /\ branchS(routerS(values)) = "__end__"
              /\ routerS(values) = "multiple" => count >= 2
    /\ interruptsS > 0 => Len(PushUntilCap(hitsS, <<>>)) >= 2

\* The list the language model's answer selects from `flights`
SelectedByAnswer(flights, content) ==
    LET sel == selectedNumbers(content, Len(flights))
    IN  [i \in 1..Len(sel) |-> flights[sel[i].n + 1]]

\* C19: selection by number in the circular workflow. When the resume
\* value is made of decimal digits only and denotes a position n with
\* 1 <= n <= number of flights, disambiguateSelection returns the single
\* flight at position n whatever the language model would answer (it is not
\* asked), and the router then selects "final"; a digit string outside that
\* range is not taken as a selection: the list returned is the one the
\* language model's answer selects.
C19_SelectionByNumber ==
    /\ runC.cursor = "disambiguateSelection" =>
          LET flights == FlightsC(runC.values)
              userInput == OrEmpty(runC.values.userChoice)
              n == DigitsValue(userInput, 0)
          IN  /\ (numberRegex(userInput) /\ n \in 1..Len(flights)) =>
                    \A content \in LLMContents :
                        LET upd == disambiguateSelection(runC.values, content)
                        IN  /\ upd = [filteredFlights |-> Def(<<flights[n]>>)]
                            /\ routerC(Merge(runC.values, upd)) = "final"
              /\ (numberRegex(userInput) /\ n \notin 1..Len(flights)) =>
                    /\ \A content \in LLMContents :
                          disambiguateSelection(runC.values, content) =
                              [filteredFlights |-> Def(SelectedByAnswer(flights, content))]
                    /\ Len(flights) >= 2 =>
                          \E c1, c2 \in LLMContents :
                              disambiguateSelection(runC.values, c1) #
                                  disambiguateSelection(runC.values, c2)
    /\ (runC.cursor = "showFlights" /\ nSeenC > 0) =>
          LET given == FlightsC(curC.values)
              userInput == OrEmpty(seenC)
              n == DigitsValue(userInput, 0)
          IN  (numberRegex(userInput) /\ n \in 1..Len(given)) =>
                  /\ FlightsC(runC.values) = <<given[n]>>
                  /\ routerC(runC.values) = "final"

\* C19 witness: with ten flights listed the operator typed "3", and the
\* third flight alone is back at showFlights
C19_Witness ==
    /\ runC.cursor = "showFlights"
    /\ nSeenC = 1
    /\ seenC = Def(<<"3">>)
    /\ Len(FlightsC(curC.values)) = 10
    /\ FlightsC(runC.values) = <<"PVG">>

\* While main() is inside its loop, the last outcome of the thread was a
\* suspension and the thread's checkpoint holds the pending interrupt
InsideLoopC ==
    drvC \in {"prompt", "resume"} =>
        /\ curC.interrupts = <<QuestionC>>
        /\ store[ThreadC].interrupt = Def(QuestionC)
        /\ store[ThreadC].next = "requestChoice"
        /\ store[ThreadC].values = curC.values

\* Once main() has left its loop, the last outcome carried no interrupt and
\* none is pending
AfterLoopC ==
    drvC = "exit" =>
        /\ curC.interrupts = <<>>
        /\ store[ThreadC].interrupt = None
        /\ store[ThreadC].next = "__end__"

\* A resume is sent from inside the loop, to the thread whose outcome was
\* just examined
ResumeSentC ==
    nSentC' = nSentC + 1 =>
        /\ drvC = "resume"
        /\ SuspendedC
        /\ store[ThreadC].interrupt # None
        /\ runC' = ResumeCallC(store[ThreadC], ansC)
        /\ store' = store

\* The loop is left exactly on an outcome without an interrupt
LoopTestC ==
    (drvC = "check" /\ drvC' # "check") =>
        /\ drvC' = "exit" <=> curC.interrupts = <<>>
        /\ drvC' = "prompt" <=> curC.interrupts # <<>>

\* C20: the driver of the circular workflow respects the precondition of
\* Command({resume}). It sends a resume only when the last outcome of its
\* thread was a suspension, always under its own thread_id, whose
\* checkpoint then holds the pending interrupt; it leaves its loop exactly
\* when an outcome carries no interrupt; so it never sends a resume to a
\* thread without a pending interrupt.
C20_DriverRespectsCommand ==
    /\ [](InsideLoopC /\ AfterLoopC)
    /\ [][ResumeSentC /\ LoopTestC]_vars

\* C20 witness: main() is about to send its third resume
C20_Witness ==
    /\ drvC = "resume"
    /\ nSentC = 2
    /\ store[ThreadC].interrupt = Def(QuestionC)

\* C21: in the single-pass workflow one resume is always enough, as
\* claimed. At most one interrupt is raised in a run; once the resume has
\* been sent and app.invoke is no longer pending, the run is completed,
\* never suspended again and never failed; and what main() prints is the
\* final text of that completed run.
C21_OneResumeCompletes ==
    /\ interruptsS <= 1
    /\ nSentS <= 1
    /\ (nSentS = 1 /\ drvS # "await") =>
          /\ drvS \in {"print", "exit"}
          /\ CompletedS
          /\ Truthy(curS.values.final)
    /\ drvS = "exit" => (CompletedS /\ printedS = Def(curS.values.final))

\* Between two calls of ingestData
BetweenCalls == ingPc = "idle" /\ ingCalls >= 1

\* Documents are added only to an index that holds none
AddsOnlyToEmpty ==
    esIndex'.docs # esIndex.docs =>
        /\ Len(esIndex.docs) = 0
        /\ \E file \in DatasetFiles : esIndex'.docs = initialDocs(file)

\* C22: ingestion happens only into an empty index. ingestData adds the
\* dataset only when the index holds no document; so when the first call
\* has added at least one document, the documents of the index after every
\* later call are those it held after the first call: nothing is ingested
\* twice.
C22_IngestOnce ==
    /\ []((BetweenCalls /\ addedFirst >= 1) =>
            /\ afterFirst # Undef
            /\ esIndex.docs = afterFirst[1]
            /\ Len(esIndex.docs) = addedFirst)
    /\ [][AddsOnlyToEmpty]_vars

\* C22 witness: three calls have returned, the first of which added two
\* documents, and the index holds those two
C22_Witness ==
    /\ ingPc = "idle"
    /\ ingCalls = 3
    /\ addedFirst = 2
    /\ Len(esIndex.docs) = 2

\* C23: the final node always has exactly one flight to show. Whenever
\* showFinalFlight is about to run, and after it has run, filteredFlights
\* holds exactly one flight, so the node's "No flight found" branch is never
\* taken.
C23_FinalHasOneFlight ==
    /\ runC.cursor = "showFinalFlight" =>
          /\ Len(FlightsC(runC.values)) = 1
          /\ ~noFlightFound(runC.values)
    /\ [][StepShowFinalFlight =>
             /\ ~noFlightFound(runC.values)
             /\ FlightsC(runC'.values) = FlightsC(runC.values)
             /\ Len(FlightsC(runC'.values)) = 1]_vars

\* C23 witness: showFinalFlight is about to run on the one flight left after
\* two refinements
C23_Witness ==
    /\ runC.cursor = "showFinalFlight"
    /\ nSeenC = 2
    /\ Len(FlightsC(runC.values)) = 1

\* A refinement: disambiguateSelection runs and hands over to showFlights
RefinesC == runC.cursor = "disambiguateSelection" /\ runC'.cursor = "showFlights"

\* The flights of a list, as a set
FlightSet(flights) == {flights[i] : i \in 1..Len(flights)}

\* C24: refinement never adds candidates. After disambiguateSelection the
\* list is no longer than before and holds only flights that were in it
\* before, whatever the language model answers. The second half holds; the
\* first does not, because an answer that names a flight twice ("2,1,2")
\* puts that flight into the new list twice.
C24_RefinementNeverGrows ==
    [][RefinesC =>
          /\ Len(FlightsC(runC'.values)) <= Len(FlightsC(runC.values))
          /\ FlightSet(FlightsC(runC'.values)) \subseteq FlightSet(FlightsC(runC.values))]_vars

\* The thread's state holds an empty list of flights: the search found
\* nothing, or a refinement selected nothing
ListEmptyC ==
    /\ store[ThreadC].next # "__none__"
    /\ store[ThreadC].values.filteredFlights = Def(<<>>)

\* From the first evaluation of the router on an empty list on, every
\* evaluation is on an empty list and selects "continue"
EmptyStaysInLoop ==
    \A i \in 1..Len(routerLogC) :
        routerLogC[i].size = 0 =>
            \A j \in i..Len(routerLogC) :
                routerLogC[j].size = 0 /\ routerLogC[j].label = "continue"

\* C25: an empty candidate list is absorbing. Once filteredFlights is empty
\* it stays empty through every later refinement, the router selects
\* "continue" each time, every call that returns returns suspended, and
\* neither showFinalFlight nor a completed run is ever reached.
C25_EmptyListAbsorbing ==
    /\ [](ListEmptyC =>
            /\ EmptyStaysInLoop
            /\ runC.cursor \notin {"showFinalFlight", "__end__"}
            /\ ~CompletedC
            /\ drvC # "exit"
            /\ (drvC = "check" => SuspendedC))
    /\ [][ListEmptyC => ListEmptyC']_vars

\* C25 witness: the search found ten flights, the first refinement selected
\* none, and after two more answers the run is suspended on the empty list
\* again
C25_Witness ==
    /\ ListEmptyC
    /\ SuspendedC
    /\ nSentC = 3
    /\ Len(routerLogC) = 4
    /\ routerLogC[1].size = 10
    /\ \A i \in 2..4 : routerLogC[i].size = 0 /\ routerLogC[i].label = "continue"

\* The candidates held by a state of the single-pass workflow, empty when
\* the state has none
CandidatesOf(values) ==
    IF "candidates" \in DOMAIN values THEN OrEmpty(values.candidates) ELSE <<>>

\* The flights the operator is shown: the first two hits of the search
FirstTwoHits == {hitsS[i] : i \in 1..Min(2, Len(hitsS))}

\* C26: the single-pass workflow never holds more than two candidates. In
\* the running state, in the thread's checkpoint and in every outcome
\* returned, candidates has at most two flights although the search may
\* return up to five, and the flight selected is one of the first two
\* hits: a third can never be selected.
C26_AtMostTwoCandidates ==
    /\ Len(hitsS) <= SearchLimitS
    /\ Len(CandidatesOf(runS.values)) <= 2
    /\ Len(CandidatesOf(curS.values)) <= 2
    /\ Len(CandidatesOf(store[ThreadS].values)) <= 2
    /\ \A values \in {runS.values, curS.values, store[ThreadS].values} :
          /\ "candidates" \in DOMAIN values
          /\ values.selected # Undef
          => values.selected[1] \in FirstTwoHits

\* C26 witness: the search returned five documents, the operator typed
\* "3", and the run completed with two candidates and one of them selected
C26_Witness ==
    /\ Len(hitsS) = 5
    /\ ansS = <<"3">>
    /\ CompletedS
    /\ Len(CandidatesOf(curS.values)) = 2
    /\ curS.values.selected # Undef
    /\ curS.values.selected[1] \in FirstTwoHits
    /\ curS.values.selected[1] # hitsS[3]

====
